---- MODULE Spec2Model ----
(***************************************************************************)
(* A model of the zyth transpiler core: the code generator                 *)
(* (packages/core/zyth_core/codegen.py, class ZigCodeGenerator) and the    *)
(* build driver (packages/core/zyth_core/compiler.py, compile_zig).        *)
(*                                                                         *)
(* Text is modelled line by line.  A line is a record [pad, code]: pad is  *)
(* the number of leading spaces that indent() produced and code is the     *)
(* sequence of tokens of the f-string that emit() was given.  Two texts    *)
(* are byte-identical exactly when their line sequences are equal.         *)
(***************************************************************************)
EXTENDS Integers, Sequences, FiniteSets, TLC

VARIABLES
    \* ZigCodeGenerator instance fields (codegen.py 12-18)
    indent_level, output, needs_runtime, needs_allocator,
    declared_vars, reassigned_vars,
    \* one generate() invocation: its argument, its locals, its position
    program, functions, top_level, pc,
    \* what the caller of generate() got: the text, or the exception message
    ret, exc,
    \* one compile_zig() invocation (compiler.py 16-106)
    cpc, zig_arg, zig_code, output_path, exists, runtime_source, searched,
    main_zig, tmpdir, zig_status, binary, dest, events, cret, cexc

gvars == <<indent_level, output, needs_runtime, needs_allocator,
           declared_vars, reassigned_vars, program, functions, top_level,
           pc, ret, exc>>
cvars == <<cpc, zig_arg, zig_code, output_path, exists, runtime_source, searched,
           main_zig, tmpdir, zig_status, binary, dest, events, cret, cexc>>
vars == <<gvars, cvars>>

----------------------------------------------------------------------------
(* Bounds of the model *)

\* longest top-level statement sequence of an input module
MaxStmts == 2
\* an emitter instance is handed to another generate() only while the
\* indentation it was left with is at most this
MaxCarry == 1

(* Program constants *)
IndentWidth == 4

----------------------------------------------------------------------------
(* The AST, as ast.parse produces it (parser.py 30) *)

None == [kind |-> "None"]
Name(id) == [kind |-> "Name", id |-> id]
Str(s) == [kind |-> "Constant", is_str |-> TRUE, sval |-> s, nval |-> 0]
Num(n) == [kind |-> "Constant", is_str |-> FALSE, sval |-> "", nval |-> n]
BinOp(l, op, r) == [kind |-> "BinOp", left |-> l, op |-> op, right |-> r]
\* ops and comparators hold the first operator and the first comparator
Compare(l, op, r) == [kind |-> "Compare", left |-> l, op |-> op, right |-> r]
Call(f, args) == [kind |-> "Call", func |-> f, args |-> args]
List == [kind |-> "List"]
Subscript == [kind |-> "Subscript"]

Assign(targets, v) == [kind |-> "Assign", targets |-> targets, value |-> v]
Expr(v) == [kind |-> "Expr", value |-> v]
Return(v) == [kind |-> "Return", value |-> v]
If(t, body, orelse) == [kind |-> "If", test |-> t, body |-> body, orelse |-> orelse]
While(t, body) == [kind |-> "While", test |-> t, body |-> body]
For == [kind |-> "For"]
Arg(a, ann) == [arg |-> a, annotation |-> ann]
FunctionDef(n, args, returns, body) ==
    [kind |-> "FunctionDef", name |-> n, args |-> args, returns |-> returns,
     body |-> body]

----------------------------------------------------------------------------
(* Emitter state threaded through the visitors.  raised is the message of  *)
(* the NotImplementedError in flight, "" when there is none: once it is    *)
(* set every later step of the invocation is skipped.                      *)

Line(pad, code) == [pad |-> pad, code |-> code]
Range(f) == { f[i] : i \in DOMAIN f }

indent(g) == IndentWidth * g.indent_level

emit(g, code) ==
    IF g.raised # "" THEN g
    ELSE [g EXCEPT !.output = Append(@, Line(indent(g), code))]

Indent(g) == IF g.raised # "" THEN g ELSE [g EXCEPT !.indent_level = @ + 1]
\* Dedent that leaves the level as it is
Dedent_none(g) == g
Dedent(g) == IF g.raised # "" THEN g ELSE [g EXCEPT !.indent_level = @ - 1]
Raise(g, msg) == IF g.raised # "" THEN g ELSE [g EXCEPT !.raised = msg]

----------------------------------------------------------------------------
(* Analysis passes (codegen.py 28-76) *)

\* TRUE when the walk sets needs_runtime and needs_allocator
RECURSIVE _detect_runtime_needs(_)
_detect_runtime_needs(node) ==
    CASE node.kind = "Constant" -> node.is_str
      [] node.kind = "BinOp" ->
            _detect_runtime_needs(node.left) \/ _detect_runtime_needs(node.right)
      [] node.kind = "Assign" ->
            \/ \E i \in DOMAIN node.targets : _detect_runtime_needs(node.targets[i])
            \/ _detect_runtime_needs(node.value)
      [] node.kind = "Expr" -> _detect_runtime_needs(node.value)
      [] node.kind = "FunctionDef" ->
            \E i \in DOMAIN node.body : _detect_runtime_needs(node.body[i])
      [] node.kind = "Return" ->
            node.value # None /\ _detect_runtime_needs(node.value)
      [] node.kind = "If" ->
            \/ \E i \in DOMAIN node.body : _detect_runtime_needs(node.body[i])
            \/ \E i \in DOMAIN node.orelse : _detect_runtime_needs(node.orelse[i])
      [] node.kind = "While" ->
            \E i \in DOMAIN node.body : _detect_runtime_needs(node.body[i])
      [] OTHER -> FALSE

\* NoteTarget with the membership test on the wrong set
NoteTarget_wrong_set(g, target) ==
    IF target.kind # "Name" THEN g
    ELSE IF target.id \in g.reassigned_vars
         THEN [g EXCEPT !.reassigned_vars = @ \cup {target.id}]
         ELSE [g EXCEPT !.declared_vars = @ \cup {target.id}]

\* one target of an Assign (codegen.py 61-65)
NoteTarget(g, target) ==
    IF target.kind # "Name" THEN g
    ELSE IF target.id \in g.declared_vars
         THEN [g EXCEPT !.reassigned_vars = @ \cup {target.id}]
         ELSE [g EXCEPT !.declared_vars = @ \cup {target.id}]

RECURSIVE NoteTargets(_, _)
NoteTargets(g, targets) ==
    IF targets = <<>> THEN g
    ELSE NoteTargets(NoteTarget(g, Head(targets)), Tail(targets))

RECURSIVE _detect_reassignments(_, _)
RECURSIVE ReassignmentsIn(_, _)
ReassignmentsIn(g, stmts) ==
    IF stmts = <<>> THEN g
    ELSE ReassignmentsIn(_detect_reassignments(g, Head(stmts)), Tail(stmts))

_detect_reassignments(g, node) ==
    CASE node.kind = "Assign" -> NoteTargets(g, node.targets)
      [] node.kind = "FunctionDef" -> ReassignmentsIn(g, node.body)
      [] node.kind = "If" ->
            ReassignmentsIn(ReassignmentsIn(g, node.body), node.orelse)
      [] node.kind = "While" -> ReassignmentsIn(g, node.body)
      [] OTHER -> g

\* the first pass of generate (codegen.py 87-89)
RECURSIVE FirstPass(_, _)
FirstPass(g, body) ==
    IF body = <<>> THEN g
    ELSE LET node == Head(body)
             hit == _detect_runtime_needs(node)
             g1 == [g EXCEPT !.needs_runtime = @ \/ hit,
                             !.needs_allocator = @ \/ hit]
         IN FirstPass(_detect_reassignments(g1, node), Tail(body))

----------------------------------------------------------------------------
(* Expression lowering (codegen.py 328-412).  The result is                *)
(* [code, needs_try, raised]: the (code, needs_try) tuple, or the message  *)
(* of the NotImplementedError raised instead.                              *)

Code(code, needs_try) == [code |-> code, needs_try |-> needs_try, raised |-> ""]
Unsupported(msg) == [code |-> <<>>, needs_try |-> FALSE, raised |-> msg]

Quote(s) == "\"" \o s \o "\""

visit_compare_op(op) ==
    CASE op = "Lt" -> "<"
      [] op = "LtE" -> "<="
      [] op = "Gt" -> ">"
      [] op = "GtE" -> ">="
      [] op = "Eq" -> "=="
      [] op = "NotEq" -> "!="
      [] OTHER -> "=="

visit_bin_op(op) ==
    CASE op = "Add" -> "+"
      [] op = "Sub" -> "-"
      [] op = "Mult" -> "*"
      [] op = "Div" -> "/"
      [] op = "Mod" -> "%"
      [] OTHER -> "+"

\* ", ".join(...)
RECURSIVE JoinArgs(_)
JoinArgs(args) ==
    IF args = <<>> THEN <<>>
    ELSE IF Len(args) = 1 THEN args[1].code
    ELSE args[1].code \o <<",">> \o JoinArgs(Tail(args))

\* the message of the first argument that raised, "" when none did
RECURSIVE FirstRaised(_)
FirstRaised(rs) ==
    IF rs = <<>> THEN ""
    ELSE IF rs[1].raised # "" THEN rs[1].raised
    ELSE FirstRaised(Tail(rs))

\* codegen.py 362-384, once the callee and the arguments are lowered
visit_call(g, node, func, args) ==
    IF func.code = <<"print">>
    THEN IF args # <<>>
         THEN IF g.needs_runtime /\ node.args[1].kind = "Name"
              THEN Code(<<"std.debug.print", "(", Quote("{s}\\n"), ",", ".{",
                          "PyString.getValue", "(", node.args[1].id, ")", "}", ")">>,
                        FALSE)
              ELSE IF g.needs_runtime /\ args[1].needs_try
              THEN Code(<<"std.debug.print", "(", Quote("{s}\\n"), ",", ".{",
                          "PyString.getValue", "(", "try">> \o args[1].code
                          \o <<")", "}", ")">>,
                        FALSE)
              ELSE Code(<<"std.debug.print", "(", Quote("{}\\n"), ",", ".{">>
                          \o args[1].code \o <<"}", ")">>,
                        FALSE)
         ELSE Code(<<"std.debug.print", "(", Quote("\\n"), ",", ".{", "}", ")">>,
                   FALSE)
    ELSE Code(func.code \o <<"(">> \o JoinArgs(args) \o <<")">>, FALSE)

RECURSIVE visit_expr(_, _)
visit_expr(g, node) ==
    CASE node.kind = "Name" -> Code(<<node.id>>, FALSE)
      [] node.kind = "Constant" ->
            IF node.is_str
            THEN Code(<<"runtime.", "PyString.create", "(", "allocator", ",",
                        Quote(node.sval), ")">>, TRUE)
            ELSE Code(<<ToString(node.nval)>>, FALSE)
      [] node.kind = "Compare" ->
            LET l == visit_expr(g, node.left)
                r == visit_expr(g, node.right)
            IN IF l.raised # "" THEN l
               ELSE IF r.raised # "" THEN r
               ELSE Code(l.code \o <<visit_compare_op(node.op)>> \o r.code, FALSE)
      [] node.kind = "BinOp" ->
            LET l == visit_expr(g, node.left)
                r == visit_expr(g, node.right)
            IN IF l.raised # "" THEN l
               ELSE IF r.raised # "" THEN r
               ELSE IF l.needs_try \/ r.needs_try
               THEN Code(<<"runtime.", "PyString.concat", "(", "allocator", ",">>
                           \o l.code \o <<",">> \o r.code \o <<")">>, TRUE)
               ELSE Code(l.code \o <<visit_bin_op(node.op)>> \o r.code, FALSE)
      [] node.kind = "Call" ->
            LET func == visit_expr(g, node.func)
                args == [i \in DOMAIN node.args |-> visit_expr(g, node.args[i])]
            IN IF func.raised # "" THEN func
               ELSE IF FirstRaised(args) # "" THEN Unsupported(FirstRaised(args))
               ELSE visit_call(g, node, func, args)
      [] OTHER -> Unsupported("Expression not implemented: " \o node.kind)

----------------------------------------------------------------------------
(* Statement emission (codegen.py 136-326) *)

visit_type(node) ==
    IF node.kind = "Name"
    THEN CASE node.id = "int" -> "i64"
           [] node.id = "float" -> "f64"
           [] node.id = "bool" -> "bool"
           [] node.id = "str" -> "[]const u8"
           [] OTHER -> "anytype"
    ELSE "anytype"

\* the parameter list of a signature (codegen.py 154-159)
RECURSIVE Params(_)
Params(args) ==
    IF args = <<>> THEN <<>>
    ELSE LET a == Head(args)
             arg_type == IF a.annotation # None THEN visit_type(a.annotation)
                         ELSE "i64"
             one == <<a.arg, ":", arg_type>>
         IN IF Len(args) = 1 THEN one ELSE one \o <<",">> \o Params(Tail(args))

RECURSIVE _flatten_binop_chain(_, _)
_flatten_binop_chain(node, op_type) ==
    (IF node.left.kind = "BinOp" /\ node.left.op = op_type
     THEN _flatten_binop_chain(node.left, op_type)
     ELSE <<node.left>>) \o <<node.right>>

Decref(name) ==
    <<"defer", "runtime.", "decref", "(", name, ",", "allocator", ")", ";">>

TempVar(id, i) == "_temp_" \o id \o "_" \o ToString(i)
ConcatVar(id, i) == "_concat_" \o id \o "_" \o ToString(i)

\* the operand the fold uses for part k, k = 1 .. Len(parts_code); the
\* source counts the parts from 0 (codegen.py 262-272)
TempOperand(id, parts_code, k) ==
    IF parts_code[k].needs_try THEN <<TempVar(id, k - 1)>> ELSE parts_code[k].code

\* codegen.py 263-269, parts k .. Len(parts_code)
RECURSIVE EmitTemps(_, _, _, _)
EmitTemps(g, id, parts_code, k) ==
    IF k > Len(parts_code) THEN g
    ELSE IF parts_code[k].needs_try
    THEN LET g1 == emit(g, <<"const", TempVar(id, k - 1), "=", "try">>
                             \o parts_code[k].code \o <<";">>)
             g2 == emit(g1, Decref(TempVar(id, k - 1)))
         IN EmitTemps(g2, id, parts_code, k + 1)
    ELSE EmitTemps(g, id, parts_code, k + 1)

\* EmitConcats with a scoped release after every fold, the last included
RECURSIVE EmitConcats_release_all(_, _, _, _)
EmitConcats_release_all(g, id, parts_code, i) ==
    LET n == Len(parts_code)
        result_var == IF i = 1 THEN TempOperand(id, parts_code, 1)
                      ELSE <<ConcatVar(id, i - 1)>>
        g1 == emit(g, <<"const", ConcatVar(id, i), "=", "try", "runtime.",
                        "PyString.concat", "(", "allocator", ",">>
                        \o result_var \o <<",">>
                        \o TempOperand(id, parts_code, i + 1) \o <<")", ";">>)
        g2 == emit(g1, Decref(ConcatVar(id, i)))
    IN IF i > n - 1 THEN g ELSE EmitConcats_release_all(g2, id, parts_code, i + 1)

\* codegen.py 281-287: the folds i .. n - 1 over n operands
RECURSIVE EmitConcats(_, _, _, _)
EmitConcats(g, id, parts_code, i) ==
    LET n == Len(parts_code)
        result_var == IF i = 1 THEN TempOperand(id, parts_code, 1)
                      ELSE <<ConcatVar(id, i - 1)>>
        g1 == emit(g, <<"const", ConcatVar(id, i), "=", "try", "runtime.",
                        "PyString.concat", "(", "allocator", ",">>
                        \o result_var \o <<",">>
                        \o TempOperand(id, parts_code, i + 1) \o <<")", ";">>)
        g2 == IF i < n - 1 THEN emit(g1, Decref(ConcatVar(id, i))) ELSE g1
    IN IF i > n - 1 THEN g ELSE EmitConcats(g2, id, parts_code, i + 1)

\* codegen.py 260-295: the PyObject concat of an Add chain
ObjectPath(g, id, var_keyword, is_first_assignment, parts_code) ==
    LET n == Len(parts_code)
        g1 == EmitTemps(g, id, parts_code, 1)
        result_var == IF n = 1 THEN TempOperand(id, parts_code, 1)
                      ELSE <<ConcatVar(id, n - 1)>>
        g2 == IF n = 1 THEN g1 ELSE EmitConcats(g1, id, parts_code, 1)
        g3 == IF is_first_assignment
              THEN emit(g2, <<var_keyword, id, "=">> \o result_var \o <<";">>)
              ELSE emit(g2, <<id, "=">> \o result_var \o <<";">>)
    IN IF is_first_assignment THEN emit(g3, Decref(id)) ELSE g3

\* DefaultPath with the type of a `var` left to inference
DefaultPath_untyped(g, id, var_keyword, is_first_assignment, value) ==
    LET v == visit_expr(g, value)
    IN IF v.raised # "" THEN Raise(g, v.raised)
       ELSE IF is_first_assignment
       THEN IF v.needs_try
            THEN emit(emit(g, <<var_keyword, id, "=", "try">> \o v.code \o <<";">>),
                      Decref(id))
            ELSE emit(g, <<var_keyword, id, "=">> \o v.code \o <<";">>)
       ELSE IF v.needs_try
            THEN emit(g, <<id, "=", "try">> \o v.code \o <<";">>)
            ELSE emit(g, <<id, "=">> \o v.code \o <<";">>)

\* codegen.py 297-314
DefaultPath(g, id, var_keyword, is_first_assignment, value) ==
    LET v == visit_expr(g, value)
    IN IF v.raised # "" THEN Raise(g, v.raised)
       ELSE IF is_first_assignment
       THEN IF v.needs_try
            THEN emit(emit(g, <<var_keyword, id, "=", "try">> \o v.code \o <<";">>),
                      Decref(id))
            ELSE IF var_keyword = "var"
            THEN emit(g, <<var_keyword, id, ":", "i64", "=">> \o v.code \o <<";">>)
            ELSE emit(g, <<var_keyword, id, "=">> \o v.code \o <<";">>)
       ELSE IF v.needs_try
            THEN emit(g, <<id, "=", "try">> \o v.code \o <<";">>)
            ELSE emit(g, <<id, "=">> \o v.code \o <<";">>)

visit_Assign(g, node) ==
    LET target == node.targets[1]
    IN IF target.kind # "Name" THEN g
       ELSE
       LET id == target.id
           var_keyword == IF id \in g.reassigned_vars THEN "var" ELSE "const"
           is_first_assignment == id \notin g.declared_vars
           g1 == IF is_first_assignment
                 THEN [g EXCEPT !.declared_vars = @ \cup {id}] ELSE g
           chain == node.value.kind = "BinOp" /\ node.value.op = "Add"
           parts == IF chain THEN _flatten_binop_chain(node.value, "Add") ELSE <<>>
           parts_code == [k \in DOMAIN parts |-> visit_expr(g1, parts[k])]
           uses_runtime == \E k \in DOMAIN parts_code : parts_code[k].needs_try
       IN IF chain /\ FirstRaised(parts_code) # ""
          THEN Raise(g1, FirstRaised(parts_code))
          ELSE IF chain /\ (g1.needs_runtime \/ uses_runtime)
          THEN ObjectPath(g1, id, var_keyword, is_first_assignment, parts_code)
          ELSE DefaultPath(g1, id, var_keyword, is_first_assignment, node.value)

visit_Expr(g, node) ==
    IF node.value.kind = "Constant" /\ node.value.is_str THEN g
    ELSE LET e == visit_expr(g, node.value)
         IN IF e.raised # "" THEN Raise(g, e.raised)
            ELSE IF e.needs_try THEN emit(g, <<"_", "=", "try">> \o e.code \o <<";">>)
            ELSE emit(g, <<"_", "=">> \o e.code \o <<";">>)

visit_Return(g, node) ==
    IF node.value # None
    THEN LET v == visit_expr(g, node.value)
         IN IF v.raised # "" THEN Raise(g, v.raised)
            ELSE IF v.needs_try THEN emit(g, <<"return", "try">> \o v.code \o <<";">>)
            ELSE emit(g, <<"return">> \o v.code \o <<";">>)
    ELSE emit(g, <<"return", ";">>)

\* generic_visit that skips the node instead of raising
generic_visit_skips(g, node) == g

generic_visit(g, node) ==
    Raise(g, "Code generation not implemented for " \o node.kind)

RECURSIVE visit(_, _)
RECURSIVE VisitAll(_, _)
\* for stmt in body: self.visit(stmt)
VisitAll(g, stmts) ==
    IF stmts = <<>> \/ g.raised # "" THEN g
    ELSE VisitAll(visit(g, Head(stmts)), Tail(stmts))

visit_FunctionDef(g, node) ==
    LET return_type == IF node.returns # None THEN visit_type(node.returns)
                       ELSE "void"
        g1 == emit(g, <<"fn", node.name, "(">> \o Params(node.args)
                        \o <<")", return_type, "{">>)
        g2 == VisitAll(Indent(g1), node.body)
        g3 == emit(Dedent(g2), <<"}">>)
    IN emit(g3, <<>>)

visit_If(g, node) ==
    LET t == visit_expr(g, node.test)
        g1 == emit(g, <<"if", "(">> \o t.code \o <<")", "{">>)
        g2 == Dedent(VisitAll(Indent(g1), node.body))
        g3 == IF node.orelse # <<>>
              THEN Dedent(VisitAll(Indent(emit(g2, <<"}", "else", "{">>)),
                                   node.orelse))
              ELSE g2
    IN IF t.raised # "" THEN Raise(g, t.raised) ELSE emit(g3, <<"}">>)

visit_While(g, node) ==
    LET t == visit_expr(g, node.test)
        g1 == emit(g, <<"while", "(">> \o t.code \o <<")", "{">>)
        g2 == Dedent(VisitAll(Indent(g1), node.body))
    IN IF t.raised # "" THEN Raise(g, t.raised) ELSE emit(g2, <<"}">>)

\* the getattr dispatch on the node's class name (codegen.py 136-140)
visit(g, node) ==
    IF g.raised # "" THEN g
    ELSE CASE node.kind = "FunctionDef" -> visit_FunctionDef(g, node)
           [] node.kind = "If" -> visit_If(g, node)
           [] node.kind = "While" -> visit_While(g, node)
           [] node.kind = "Return" -> visit_Return(g, node)
           [] node.kind = "Assign" -> visit_Assign(g, node)
           [] node.kind = "Expr" -> visit_Expr(g, node)
           [] OTHER -> generic_visit(g, node)

----------------------------------------------------------------------------
(* generate (codegen.py 78-134), phase by phase *)

IsFunctionDef(node) == node.kind = "FunctionDef"
IsTopLevel(node) == node.kind # "FunctionDef"

\* codegen.py 80-92: reset, first pass, reset of declared_vars
Analyse(g, body) ==
    LET g0 == [g EXCEPT !.output = <<>>, !.needs_runtime = FALSE,
                        !.needs_allocator = FALSE, !.declared_vars = {},
                        !.reassigned_vars = {}]
    IN [FirstPass(g0, body) EXCEPT !.declared_vars = {}]

\* Imports with the blank line before the runtime import
Imports_blank_first(g) ==
    LET g1 == emit(emit(g, <<"const", "std", "=", "@import(\"std\")", ";">>), <<>>)
    IN IF g1.needs_runtime
       THEN emit(g1, <<"const", "runtime", "=", "@import(\"runtime\")", ";">>)
       ELSE g1

\* codegen.py 95-99
Imports(g) ==
    LET g1 == emit(g, <<"const", "std", "=", "@import(\"std\")", ";">>)
        g2 == IF g1.needs_runtime
              THEN emit(g1, <<"const", "runtime", "=", "@import(\"runtime\")", ";">>)
              ELSE g1
    IN emit(g2, <<>>)

\* codegen.py 117-126
OpenMain(g) ==
    IF g.needs_allocator
    THEN LET g1 == Indent(emit(g, <<"pub", "fn", "main", "(", ")", "!void", "{">>))
             g2 == emit(g1, <<"var", "gpa", "=",
                              "std.heap.GeneralPurposeAllocator(.{}){}", ";">>)
             g3 == emit(g2, <<"defer", "_", "=", "gpa.deinit()", ";">>)
             g4 == emit(g3, <<"const", "allocator", "=", "gpa.allocator()", ";">>)
         IN emit(g4, <<>>)
    ELSE Indent(emit(g, <<"pub", "fn", "main", "(", ")", "void", "{">>))

\* codegen.py 131-132
CloseMain(g) == emit(Dedent(g), <<"}">>)

\* the whole of generate on emitter g: the emitter it leaves, raised set
\* when the invocation ended in the exception instead of a return
generate(g, body) ==
    LET g1 == Imports(Analyse(g, body))
        g2 == VisitAll(g1, SelectSeq(body, IsFunctionDef))
        top == SelectSeq(body, IsTopLevel)
    IN IF top # <<>> THEN CloseMain(VisitAll(OpenMain(g2), top)) ELSE g2

\* ZigCodeGenerator() (codegen.py 12-18)
NewGenerator ==
    [indent_level |-> 0, output |-> <<>>, needs_runtime |-> FALSE,
     needs_allocator |-> FALSE, declared_vars |-> {}, reassigned_vars |-> {},
     raised |-> ""]

\* generate_code (codegen.py 415-418): the text, on a generator of its own
generate_code(body) == generate(NewGenerator, body).output

----------------------------------------------------------------------------
(* Inputs *)

AssignTo(t, v) == Assign(<<Name(t)>>, v)
CallPrint(args) == Expr(Call(Name("print"), args))

Lit3 == BinOp(BinOp(Str("a"), "Add", Str("b")), "Add", Str("c"))
Test == Compare(Name("x"), "Lt", Num(1))
StrTest == Compare(Name("x"), "Eq", Str("a"))

\* statements without a body
Simple ==
    { AssignTo("x", Num(1)),
      AssignTo("x", Str("a")),
      AssignTo("x", BinOp(Str("a"), "Add", Str("b"))),
      AssignTo("x", Lit3),
      AssignTo("y", Num(1)),
      AssignTo("y", BinOp(Num(1), "Add", Num(2))),
      AssignTo("y", BinOp(Name("x"), "Add", Str("b"))),
      AssignTo("x", BinOp(Num(2), "Pow", Num(3))),
      AssignTo("x", List),
      Assign(<<Subscript>>, Num(1)),
      CallPrint(<<Str("hi")>>),
      CallPrint(<<Name("x")>>),
      CallPrint(<<>>),
      Expr(Call(Name("f"), <<Num(1), Str("a")>>)),
      Return(None),
      For }

\* statements put into the body of a compound statement
Inner == { AssignTo("x", Num(1)),
           AssignTo("x", BinOp(Str("a"), "Add", Str("b"))),
           For }

Compound ==
    { If(Test, <<s>>, <<>>) : s \in Inner }
    \cup { If(Test, <<AssignTo("x", Num(1))>>, <<AssignTo("x", Num(2))>>),
           If(StrTest, <<AssignTo("y", Num(1))>>, <<>>) }
    \cup { While(Test, <<s>>) : s \in Inner }
    \cup { While(StrTest, <<AssignTo("y", Num(1))>>) }
    \cup { FunctionDef("f", <<>>, None, <<s>>) : s \in Inner }
    \cup { FunctionDef("f", <<>>, None, <<If(Test, <<For>>, <<>>)>>),
           FunctionDef("g", <<Arg("a", Name("int")), Arg("b", None)>>, Name("int"),
                       <<Expr(Str("doc")),
                         Return(BinOp(Name("a"), "Add", Num(1)))>>) }

Stmts == Simple \cup Compound

RECURSIVE Bodies(_)
Bodies(n) ==
    IF n = 0 THEN {<<>>}
    ELSE LET shorter == Bodies(n - 1)
         IN shorter \cup { Append(b, s) : b \in { c \in shorter : Len(c) = n - 1 },
                                           s \in Stmts }

\* the modules generate is given
Programs == Bodies(MaxStmts)

\* the modules an emitter instance was given before it is given another
Earlier == { <<AssignTo("x", Num(1))>>,
             <<For>>,
             <<If(Test, <<For>>, <<>>)>> }

----------------------------------------------------------------------------
(* The emitter as a state machine *)

Self ==
    [indent_level |-> indent_level, output |-> output,
     needs_runtime |-> needs_runtime, needs_allocator |-> needs_allocator,
     declared_vars |-> declared_vars, reassigned_vars |-> reassigned_vars,
     raised |-> ""]

\* the fields of the instance after a step; an exception leaves generate
Store(g, next_pc) ==
    /\ indent_level' = g.indent_level
    /\ output' = g.output
    /\ needs_runtime' = g.needs_runtime
    /\ needs_allocator' = g.needs_allocator
    /\ declared_vars' = g.declared_vars
    /\ reassigned_vars' = g.reassigned_vars
    /\ pc' = IF g.raised # "" THEN "raised" ELSE next_pc
    /\ exc' = g.raised

InitGenerator ==
    /\ indent_level = 0
    /\ output = <<>>
    /\ needs_runtime = FALSE
    /\ needs_allocator = FALSE
    /\ declared_vars = {}
    /\ reassigned_vars = {}
    /\ program = <<>>
    /\ functions = <<>>
    /\ top_level = <<>>
    /\ pc = "idle"
    /\ ret = <<>>
    /\ exc = ""

\* generate(parsed) is entered: codegen.py 80-92
CallGenerate ==
    /\ \/ pc = "idle"
       \/ pc \in {"returned", "raised"} /\ program \in Earlier
                                        /\ indent_level <= MaxCarry
    /\ \E body \in Programs :
          /\ program' = body
          /\ Store(Analyse(Self, body), "imports")
    /\ functions' = <<>>
    /\ top_level' = <<>>
    /\ ret' = <<>>
    /\ UNCHANGED cvars

\* codegen.py 95-109
EmitImports ==
    /\ pc = "imports"
    /\ functions' = SelectSeq(program, IsFunctionDef)
    /\ top_level' = SelectSeq(program, IsTopLevel)
    /\ Store(Imports(Self), "functions")
    /\ UNCHANGED <<program, ret, cvars>>

\* codegen.py 112-113, one function
EmitFunction ==
    /\ pc = "functions"
    /\ functions # <<>>
    /\ functions' = Tail(functions)
    /\ Store(visit(Self, Head(functions)), "functions")
    /\ UNCHANGED <<program, top_level, ret, cvars>>

\* codegen.py 116-126
WrapMain ==
    /\ pc = "functions"
    /\ functions = <<>>
    /\ \/ /\ top_level # <<>>
          /\ Store(OpenMain(Self), "top_level")
       \/ /\ top_level = <<>>
          /\ Store(Self, "return")
    /\ UNCHANGED <<program, functions, top_level, ret, cvars>>

\* codegen.py 128-129, one statement
EmitTopLevel ==
    /\ pc = "top_level"
    /\ top_level # <<>>
    /\ top_level' = Tail(top_level)
    /\ Store(visit(Self, Head(top_level)), "top_level")
    /\ UNCHANGED <<program, functions, ret, cvars>>

\* codegen.py 131-132
EndMain ==
    /\ pc = "top_level"
    /\ top_level = <<>>
    /\ Store(CloseMain(Self), "return")
    /\ UNCHANGED <<program, functions, top_level, ret, cvars>>

\* codegen.py 134
ReturnText ==
    /\ pc = "return"
    /\ ret' = output
    /\ pc' = "returned"
    /\ UNCHANGED <<indent_level, output, needs_runtime, needs_allocator,
                   declared_vars, reassigned_vars, program, functions,
                   top_level, exc, cvars>>

----------------------------------------------------------------------------
(* compile_zig (compiler.py 16-106) *)

\* compiler.py 33-36, in the order searched
possible_paths ==
    << "zyth_core/../../../runtime/src/runtime.zig",
       "cwd/packages/runtime/src/runtime.zig" >>

NoError == [msg |-> "", paths |-> <<>>]
RuntimeNotFound(paths) ==
    [msg |-> "Runtime library not found. Searched:", paths |-> paths]
CompilationFailed == [msg |-> "Zig compilation failed:", paths |-> <<>>]
BinaryMissing ==
    [msg |-> "Compilation succeeded but binary not found", paths |-> <<>>]
CompilerNotRun == [msg |-> "OSError", paths |-> <<>>]

\* '@import("runtime")' in zig_code
MentionsRuntime(text) ==
    \E i \in DOMAIN text : \E k \in DOMAIN text[i].code :
        text[i].code[k] = "@import(\"runtime\")"

\* compiler.py 38-42: the paths whose existence is tested, up to the first
\* that exists
RECURSIVE Probed(_, _)
Probed(paths, extant) ==
    IF paths = <<>> THEN <<>>
    ELSE IF Head(paths) \in extant THEN <<Head(paths)>>
    ELSE <<Head(paths)>> \o Probed(Tail(paths), extant)

\* FindRuntime without the break: the last candidate that exists
FindRuntime_last(paths, extant) ==
    LET hits == { i \in DOMAIN paths : paths[i] \in extant }
    IN IF hits = {} THEN "None"
       ELSE paths[CHOOSE i \in hits : \A j \in hits : j <= i]

\* compiler.py 38-42: runtime_source, "None" when no candidate exists
FindRuntime(paths, extant) ==
    LET probed == Probed(paths, extant)
    IN IF probed # <<>> /\ probed[Len(probed)] \in extant
       THEN probed[Len(probed)] ELSE "None"

\* runtime_source.read_text()
RuntimeText(path) == << Line(0, <<"// contents of", path>>) >>

\* compiler.py 58: the lines the inlining drops
IsImportLine(l, new_lines) ==
    \/ \E k \in DOMAIN l.code : l.code[k] = "@import(\"runtime\")"
    \/ /\ Len(l.code) >= 4
       /\ SubSeq(l.code, 1, 4) = <<"const", "std", "=", "@import(\"std\")">>
       /\ new_lines = <<>>

\* line.replace("runtime.", "")
Unqualified(code) == SelectSeq(code, LAMBDA t : t # "runtime.")

\* compiler.py 54-62
RECURSIVE Rewrite(_, _)
Rewrite(lines, new_lines) ==
    IF lines = <<>> THEN new_lines
    ELSE IF IsImportLine(Head(lines), new_lines)
    THEN Rewrite(Tail(lines), new_lines)
    ELSE Rewrite(Tail(lines),
                 Append(new_lines, Line(Head(lines).pad, Unqualified(Head(lines).code))))

\* compiler.py 51-65
Inlined(text, path) == RuntimeText(path) \o <<Line(0, <<>>)>> \o Rewrite(text, <<>>)

\* OnExit that removes the directory on the return path only
OnExit_return_only(err) == IF err = NoError THEN "deleted" ELSE "exists"

\* leaving `with tempfile.TemporaryDirectory()` (compiler.py 68), by return
\* or by exception
OnExit(err) == "deleted"

\* AfterRun without the test that the binary exists
AfterRun_unchecked(status, has_binary, out) ==
    IF status = "failed" THEN [copy |-> FALSE, ret |-> "None", exc |-> CompilationFailed]
    ELSE IF status = "oserror" THEN [copy |-> FALSE, ret |-> "None", exc |-> CompilerNotRun]
    ELSE IF out # "" THEN [copy |-> TRUE, ret |-> out, exc |-> NoError]
    ELSE [copy |-> FALSE, ret |-> "tmpdir/main", exc |-> NoError]

\* compiler.py 88-106, once subprocess.run is back: whether the binary is
\* copied, and what compile_zig returns or raises
AfterRun(status, has_binary, out) ==
    IF status = "failed" THEN [copy |-> FALSE, ret |-> "None", exc |-> CompilationFailed]
    ELSE IF status = "oserror" THEN [copy |-> FALSE, ret |-> "None", exc |-> CompilerNotRun]
    ELSE IF ~has_binary THEN [copy |-> FALSE, ret |-> "None", exc |-> BinaryMissing]
    ELSE IF out # "" THEN [copy |-> TRUE, ret |-> out, exc |-> NoError]
    ELSE [copy |-> FALSE, ret |-> "tmpdir/main", exc |-> NoError]

\* the texts compile_zig is given (compiler.py 127-131)
BuildPrograms ==
    { <<>>,
      <<AssignTo("x", Num(1)), CallPrint(<<Name("x")>>)>>,
      <<AssignTo("x", Str("a")), CallPrint(<<Name("x")>>)>>,
      <<CallPrint(<<Str("hi")>>)>>,
      <<FunctionDef("f", <<>>, None, <<AssignTo("x", Num(1))>>),
        AssignTo("x", BinOp(Str("a"), "Add", Str("b")))>> }
OutputPaths == {"None", "", "out/bin"}

InitIdleDriver ==
    /\ cpc = "idle"
    /\ zig_arg = <<>>
    /\ zig_code = <<>>
    /\ output_path = "None"
    /\ exists = {}
    /\ runtime_source = "None"
    /\ searched = <<>>
    /\ main_zig = <<>>
    /\ tmpdir = "none"
    /\ zig_status = "none"
    /\ binary = FALSE
    /\ dest = "absent"
    /\ events = <<>>
    /\ cret = "None"
    /\ cexc = NoError

\* compile_zig(zig_code, output_path) is entered
CallCompile ==
    /\ cpc = "idle"
    /\ \E p \in BuildPrograms, out \in OutputPaths, extant \in SUBSET Range(possible_paths) :
          /\ zig_arg' = generate_code(p)
          /\ zig_code' = generate_code(p)
          /\ output_path' = out
          /\ exists' = extant
    /\ cpc' = "inline"
    /\ UNCHANGED <<runtime_source, searched, main_zig, tmpdir, zig_status, binary,
                   dest, events, cret, cexc, gvars>>

\* compiler.py 31-65
InlineRuntime ==
    /\ cpc = "inline"
    /\ IF MentionsRuntime(zig_code)
       THEN /\ searched' = Probed(possible_paths, exists)
            /\ runtime_source' = FindRuntime(possible_paths, exists)
            /\ IF runtime_source' = "None"
               THEN /\ cexc' = RuntimeNotFound(possible_paths)
                    /\ cpc' = "raised"
                    /\ UNCHANGED <<zig_code, events>>
               ELSE /\ zig_code' = Inlined(zig_code, runtime_source')
                    /\ events' = Append(events, "inline")
                    /\ cpc' = "mkdtemp"
                    /\ UNCHANGED cexc
       ELSE /\ cpc' = "mkdtemp"
            /\ UNCHANGED <<searched, runtime_source, cexc, zig_code, events>>
    /\ UNCHANGED <<zig_arg, output_path, exists, main_zig, tmpdir, zig_status,
                   binary, dest, cret, gvars>>

\* compiler.py 68-75
WriteMain ==
    /\ cpc = "mkdtemp"
    /\ tmpdir' = "exists"
    /\ main_zig' = zig_code
    /\ output_path' = IF output_path = "None" THEN "tmpdir/output" ELSE output_path
    /\ events' = events \o <<"mkdtemp", "write">>
    /\ cpc' = "zig"
    /\ UNCHANGED <<zig_arg, zig_code, exists, runtime_source, searched, zig_status,
                   binary, dest, cret, cexc, gvars>>

\* compiler.py 79-85: the external compiler ends with status zero, with or
\* without a binary, or with a non-zero status, or cannot be started
RunZig ==
    /\ cpc = "zig"
    /\ \E status \in {"ok", "failed", "oserror"}, made \in BOOLEAN :
          /\ made => status = "ok"
          /\ zig_status' = status
          /\ binary' = made
          /\ events' = IF status = "oserror" THEN events ELSE Append(events, "zig")
    /\ cpc' = "ran"
    /\ UNCHANGED <<zig_arg, zig_code, output_path, exists, runtime_source, searched,
                   main_zig, tmpdir, dest, cret, cexc, gvars>>

\* compiler.py 88-106
CopyOrRaise ==
    /\ cpc = "ran"
    /\ LET r == AfterRun(zig_status, binary, output_path)
       IN /\ cret' = r.ret
          /\ cexc' = r.exc
          /\ events' = IF r.copy THEN events \o <<"mkdir", "copy">> ELSE events
          /\ dest' = IF r.copy /\ output_path = "out/bin" THEN "binary" ELSE dest
    /\ cpc' = "exit"
    /\ UNCHANGED <<zig_arg, zig_code, output_path, exists, runtime_source, searched,
                   main_zig, tmpdir, zig_status, binary, gvars>>

\* the with block is left: compiler.py 68
LeaveWith ==
    /\ cpc = "exit"
    /\ tmpdir' = OnExit(cexc)
    /\ cpc' = IF cexc # NoError THEN "raised" ELSE "returned"
    /\ UNCHANGED <<zig_arg, zig_code, output_path, exists, runtime_source, searched,
                   main_zig, zig_status, binary, dest, events, cret, cexc, gvars>>

NextBuild ==
    \/ CallCompile
    \/ InlineRuntime
    \/ WriteMain
    \/ RunZig
    \/ CopyOrRaise
    \/ LeaveWith

Init == InitGenerator /\ InitIdleDriver

Next ==
    \/ CallGenerate
    \/ EmitImports
    \/ EmitFunction
    \/ WrapMain
    \/ EmitTopLevel
    \/ EndMain
    \/ ReturnText

Spec == Init /\ [][Next]_vars

SpecBuild == Init /\ [][NextBuild]_vars

----------------------------------------------------------------------------
(* What the claims speak of, read off the input and the text alone *)

Children(node) ==
    CASE node.kind \in {"BinOp", "Compare"} -> <<node.left, node.right>>
      [] node.kind = "Call" -> <<node.func>> \o node.args
      [] node.kind = "Assign" -> node.targets \o <<node.value>>
      [] node.kind = "Expr" -> <<node.value>>
      [] node.kind = "Return" -> IF node.value = None THEN <<>> ELSE <<node.value>>
      [] node.kind = "If" -> <<node.test>> \o node.body \o node.orelse
      [] node.kind = "While" -> <<node.test>> \o node.body
      [] node.kind = "FunctionDef" -> node.body
      [] OTHER -> <<>>

\* every node of the trees, in source order, each occurrence once
RECURSIVE NodesOf(_)
NodesOf(nodes) ==
    IF nodes = <<>> THEN <<>>
    ELSE <<Head(nodes)>> \o NodesOf(Children(Head(nodes))) \o NodesOf(Tail(nodes))

IsStrLiteral(n) == n.kind = "Constant" /\ n.is_str
HasStrLiteral(body) ==
    LET ns == NodesOf(body) IN \E i \in DOMAIN ns : IsStrLiteral(ns[i])

StmtKinds == {"FunctionDef", "Assign", "Expr", "If", "While", "Return"}
ExprKinds == {"Name", "Constant", "BinOp", "Compare", "Call"}
BinOps == {"Add", "Sub", "Mult", "Div", "Mod"}
CompareOps == {"Lt", "LtE", "Gt", "GtE", "Eq", "NotEq"}

\* a node of the accepted subset (spec 6), its children apart
AcceptedNode(n) ==
    /\ n.kind \in StmtKinds \cup ExprKinds
    /\ n.kind = "Assign" => Len(n.targets) = 1 /\ n.targets[1].kind = "Name"
    /\ n.kind = "BinOp" => n.op \in BinOps
    /\ n.kind = "Compare" => n.op \in CompareOps

Accepted(body) ==
    LET ns == NodesOf(body) IN \A i \in DOMAIN ns : AcceptedNode(ns[i])

\* how many Assign statements of the input have the name as their target
AssignCount(body, id) ==
    LET Hit(n) == n.kind = "Assign" /\ \E i \in DOMAIN n.targets :
                      n.targets[i].kind = "Name" /\ n.targets[i].id = id
    IN Len(SelectSeq(NodesOf(body), Hit))

AssignedNames(body) ==
    LET ns == NodesOf(body)
    IN { ns[i].targets[1].id :
           i \in { j \in DOMAIN ns : /\ ns[j].kind = "Assign"
                                     /\ ns[j].targets[1].kind = "Name" } }

\* lines of the text
IsDeclOf(l, id) ==
    Len(l.code) >= 3 /\ l.code[1] \in {"var", "const"} /\ l.code[2] = id
IsRestoreOf(l, id) == Len(l.code) >= 3 /\ l.code[1] = id /\ l.code[2] = "="
IsDecref(l) ==
    Len(l.code) >= 3 /\ l.code[1] = "defer" /\ l.code[2] = "runtime."
                     /\ l.code[3] = "decref"
\* `NAME = try runtime.PyString.create/concat(...)`, with or without keyword
IsCreation(l) ==
    \E k \in {2, 3} :
        /\ Len(l.code) >= k + 4
        /\ k = 3 => l.code[1] \in {"var", "const"}
        /\ l.code[k] = "=" /\ l.code[k + 1] = "try" /\ l.code[k + 2] = "runtime."
        /\ l.code[k + 3] \in {"PyString.create", "PyString.concat"}

\* the line that opens the block line i of the text is in (0: the file)
Opener(text, i) ==
    LET above == { j \in 1 .. i - 1 : text[j].pad < text[i].pad }
    IN IF above = {} THEN 0 ELSE CHOOSE j \in above : \A k \in above : k <= j

BlockOf(text, o) == { i \in DOMAIN text : Opener(text, i) = o }

----------------------------------------------------------------------------
(* Claims about generate *)

StdImport == <<"const", "std", "=", "@import(\"std\")", ";">>
RuntimeImport == <<"const", "runtime", "=", "@import(\"runtime\")", ";">>
IsMainLine(l) == Len(l.code) = 7 /\ l.code[1] = "pub" /\ l.code[3] = "main"
IsFnLine(l) == Len(l.code) >= 2 /\ l.code[1] = "fn"
IsGpaLine(l) ==
    Len(l.code) >= 2 /\ \/ l.code[2] \in {"gpa", "allocator"}
                        \/ l.code[1] = "defer" /\ l.code[2] = "_"
Analysed == pc # "idle"

\* C1: once the analysis of an accepted program has run, a string literal
\* anywhere in the program (also as a call argument or in an if/while test)
\* has set needs_runtime and needs_allocator, and the main entry of the
\* returned text is the fallible one.
C1_StringLiteralSetsRuntime ==
    (Analysed /\ Accepted(program) /\ HasStrLiteral(program)) =>
        /\ needs_runtime
        /\ needs_allocator
        /\ pc = "returned" =>
              \A i \in DOMAIN ret : IsMainLine(ret[i]) => ret[i].code[6] = "!void"

\* single-name assignments only, all in the block of main
OnlyAssignments(body) ==
    /\ body # <<>>
    /\ \A i \in DOMAIN body :
          body[i].kind = "Assign" /\ body[i].targets[1].kind = "Name"

\* C2: in the text returned for an accepted program of single-name
\* assignments (first assignments and re-assignments, object path and
\* primitive path) every block holds as many creations of a runtime object
\* bound to a name as scoped releases.
C2_CreationsMatchReleases ==
    (pc = "returned" /\ Accepted(program) /\ OnlyAssignments(program)) =>
        \A o \in {0} \cup DOMAIN ret :
            Cardinality({ i \in BlockOf(ret, o) : IsCreation(ret[i]) })
              = Cardinality({ i \in BlockOf(ret, o) : IsDecref(ret[i]) })

\* C3: in the returned text a name that is the target of more than one
\* Assign of the input is declared, and only with `var`; a name that is the
\* target of exactly one Assign is declared, and only with `const`.
C3_MutabilityKeyword ==
    pc = "returned" =>
        \A id \in AssignedNames(program) :
            LET kw == IF AssignCount(program, id) > 1 THEN "var" ELSE "const"
            IN /\ \E i \in DOMAIN ret : IsDeclOf(ret[i], id)
               /\ \A i \in DOMAIN ret : IsDeclOf(ret[i], id) => ret[i].code[1] = kw

\* a text that declares a name assigned twice inside a compound statement
\* and a name assigned once
C3_Witness ==
    /\ pc = "returned"
    /\ Len(program) = 2
    /\ program[1].kind \in {"If", "While", "FunctionDef"}
    /\ AssignCount(program, "x") > 1
    /\ AssignCount(program, "y") = 1
    /\ \E i \in DOMAIN ret : IsDeclOf(ret[i], "x") /\ ret[i].code[1] = "var"
    /\ \E i \in DOMAIN ret : IsDeclOf(ret[i], "y") /\ ret[i].code[1] = "const"

\* C4: generate returns text only for inputs of the accepted subset.
C4_OutsideSubsetRejected ==
    pc \in {"return", "returned"} => Accepted(program)

UnsupportedFor == "Code generation not implemented for For"
HasFor(body) == LET ns == NodesOf(body) IN \E i \in DOMAIN ns : ns[i].kind = "For"
\* For statements are the only nodes of the input whose kind the emitter
\* does not know
OnlyForUnknown(body) ==
    LET ns == NodesOf(body)
    IN \A i \in DOMAIN ns :
           ns[i].kind \in StmtKinds \cup ExprKinds \cup {"For", "Subscript", "None"}

\* C5: the analysis of an input with a For statement (at top level, in a
\* function, in an if or a while body) ends without an error, and the emission
\* ends in the unsupported-construct error naming For, with no text returned.
C5_ForIsRejected ==
    (/\ pc \in {"imports", "return", "returned", "raised"}
     /\ HasFor(program)
     /\ OnlyForUnknown(program)) =>
        /\ pc = "imports" => exc = ""
        /\ pc \notin {"return", "returned"}
        /\ pc = "raised" => exc = UnsupportedFor /\ ret = <<>>

\* the For was inside a nested block and after emitted lines
C5_Witness ==
    /\ pc = "raised"
    /\ exc = UnsupportedFor
    /\ ret = <<>>
    /\ Len(output) > 3
    /\ \E i \in DOMAIN program :
          program[i].kind \in {"If", "While", "FunctionDef"} /\ HasFor(<<program[i]>>)

\* the first token of the line a top-level statement is emitted as
HeadKey(stmt) ==
    CASE stmt.kind = "Assign" -> stmt.targets[1].id
      [] stmt.kind = "If" -> "if"
      [] stmt.kind = "While" -> "while"
      [] stmt.kind = "Return" -> "return"
      [] OTHER -> "_"
EmitsLine(stmt) ==
    /\ stmt.kind = "Assign" => stmt.targets[1].kind = "Name"
    /\ stmt.kind = "Expr" => ~IsStrLiteral(stmt.value)
IsHeadLine(l, names) ==
    /\ l.code # <<>>
    /\ \/ l.code[1] \in {"if", "while", "return", "_"}
       \/ \E id \in names : IsDeclOf(l, id) \/ IsRestoreOf(l, id)
LineKey(l) == IF l.code[1] \in {"var", "const"} THEN l.code[2] ELSE l.code[1]

\* C6: the returned text is the std import, the runtime import iff
\* needs_runtime, a blank line, the functions in source order, then a main
\* entry iff there is a top-level statement that is no function, holding
\* those statements in source order; main is `!void` with the allocator
\* set-up iff needs_allocator, which equals needs_runtime.
C6_TextOrder ==
    pc = "returned" =>
        LET blank == IF needs_runtime THEN 3 ELSE 2
            fns == SelectSeq(ret, IsFnLine)
            defs == SelectSeq(program, IsFunctionDef)
            top == SelectSeq(program, IsTopLevel)
            mains == { i \in DOMAIN ret : IsMainLine(ret[i]) }
            names == AssignedNames(program)
            InMain(l) == l.pad = ret[1].pad + IndentWidth /\ IsHeadLine(l, names)
        IN /\ needs_allocator = needs_runtime
           /\ Len(ret) >= blank
           /\ ret[1].code = StdImport
           /\ needs_runtime => ret[2].code = RuntimeImport
           /\ \A i \in DOMAIN ret : ret[i].code = RuntimeImport => needs_runtime /\ i = 2
           /\ ret[blank].code = <<>>
           /\ [i \in DOMAIN fns |-> fns[i].code[2]] = [i \in DOMAIN defs |-> defs[i].name]
           /\ (mains # {}) <=> (top # <<>>)
           /\ Cardinality(mains) <= 1
           /\ \A m \in mains :
                 /\ \A i \in DOMAIN ret : IsFnLine(ret[i]) => blank < i /\ i < m
                 /\ ret[Len(ret)].code = <<"}">>
                 /\ IF needs_allocator
                    THEN /\ ret[m].code[6] = "!void"
                         /\ Len(ret) >= m + 4
                         /\ ret[m + 1].code[2] = "gpa"
                         /\ ret[m + 2].code = <<"defer", "_", "=", "gpa.deinit()", ";">>
                         /\ ret[m + 3].code
                              = <<"const", "allocator", "=", "gpa.allocator()", ";">>
                         /\ ret[m + 4].code = <<>>
                    ELSE /\ ret[m].code[6] = "void"
                         /\ \A i \in DOMAIN ret : ~IsGpaLine(ret[i])
                 /\ LET heads == SelectSeq(SubSeq(ret, m + 1, Len(ret)), InMain)
                        stmts == SelectSeq(top, EmitsLine)
                    IN [i \in DOMAIN heads |-> LineKey(heads[i])]
                         = [i \in DOMAIN stmts |-> HeadKey(stmts[i])]

\* a function that follows a top-level statement in the source is emitted
\* before main, in a text with the runtime import
C6_Witness ==
    /\ pc = "returned"
    /\ needs_runtime
    /\ Len(program) = 2
    /\ program[1].kind = "Assign"
    /\ program[2].kind = "FunctionDef"
    /\ \E i, m \in DOMAIN ret : IsFnLine(ret[i]) /\ IsMainLine(ret[m]) /\ i < m

\* C7: the text generate returns is the text a generator of its own returns
\* for the same program, whatever the instance was given before.
C7_SameTextOnReuse ==
    pc = "returned" => ret = generate_code(program)

----------------------------------------------------------------------------
(* Claims about compile_zig *)

Left == cpc \in {"returned", "raised"}

\* C8: when compile_zig has returned or raised, a temporary directory it
\* created is deleted, on the success path and on both CompilationError
\* paths; the runtime-not-found error is raised with no directory created.
C8_TmpDirDeleted ==
    /\ Left => tmpdir # "exists"
    /\ (Left /\ "mkdtemp" \in Range(events)) => tmpdir = "deleted"
    /\ (Left /\ cexc = RuntimeNotFound(possible_paths)) => tmpdir = "none"

\* the compiler succeeded, the binary is missing, the error is out
C8_Witness ==
    /\ cpc = "raised"
    /\ cexc = BinaryMissing
    /\ zig_status = "ok"
    /\ tmpdir = "deleted"

Rank(e) ==
    CASE e = "inline" -> 1
      [] e = "mkdtemp" -> 2
      [] e = "write" -> 3
      [] e = "zig" -> 4
      [] e = "mkdir" -> 5
      [] e = "copy" -> 6

\* C9: the effects of compile_zig happen in the order inlining, write of
\* main.zig, compiler invocation, copy; the parent directory is made and the
\* binary copied only after the compiler ended with status zero and the
\* binary exists; after a failed compilation or with the binary missing the
\* requested output path is untouched and the call raises.
C9_StepOrder ==
    /\ \A i, j \in DOMAIN events : i < j => Rank(events[i]) < Rank(events[j])
    /\ \A e \in {"mkdir", "copy"} :
          e \in Range(events) => zig_status = "ok" /\ binary /\ "zig" \in Range(events)
    /\ "zig" \in Range(events) => "write" \in Range(events) /\ main_zig = zig_code
    /\ (MentionsRuntime(zig_arg) /\ "write" \in Range(events))
          => "inline" \in Range(events)
    /\ dest = "binary" => "copy" \in Range(events)
    /\ (cpc \in {"exit", "returned", "raised"}
          /\ (zig_status = "failed" \/ (zig_status = "ok" /\ ~binary)))
          => dest = "absent" /\ cexc # NoError /\ cpc # "returned"

\* a run with inlining that ended with the binary at the requested path
C9_Witness ==
    /\ cpc = "returned"
    /\ dest = "binary"
    /\ cret = "out/bin"
    /\ events = <<"inline", "mkdtemp", "write", "zig", "mkdir", "copy">>

\* the first candidate, in the order of possible_paths, that exists
FirstCandidate ==
    possible_paths[CHOOSE i \in DOMAIN possible_paths :
                      /\ possible_paths[i] \in exists
                      /\ \A j \in 1 .. i - 1 : possible_paths[j] \notin exists]

\* C10: past the inlining step, a text that mentions the runtime import has
\* the first existing candidate as its runtime source, or, no candidate
\* existing, the call has raised the error listing every candidate with no
\* file written and no compiler run; for a text without the import no path
\* was tested and main.zig holds the text as given.
C10_RuntimeLookup ==
    cpc \notin {"idle", "inline"} =>
        IF MentionsRuntime(zig_arg)
        THEN IF exists \cap Range(possible_paths) = {}
             THEN /\ cpc = "raised"
                  /\ cexc = RuntimeNotFound(possible_paths)
                  /\ main_zig = <<>>
                  /\ tmpdir = "none"
                  /\ events = <<>>
             ELSE /\ runtime_source = FirstCandidate
                  /\ cexc # RuntimeNotFound(possible_paths)
                  /\ "write" \in Range(events)
                        => SubSeq(main_zig, 1, 1) = RuntimeText(FirstCandidate)
        ELSE /\ searched = <<>>
             /\ runtime_source = "None"
             /\ "write" \in Range(events) => main_zig = zig_arg

\* both candidates exist and main.zig starts with the first one's text
C10_Witness ==
    /\ MentionsRuntime(zig_arg)
    /\ exists = Range(possible_paths)
    /\ runtime_source = possible_paths[1]
    /\ "write" \in Range(events)
    /\ SubSeq(main_zig, 1, 1) = RuntimeText(possible_paths[1])

----------------------------------------------------------------------------
(* Claims about visit_Assign *)

\* the literals of a left-leaning Add chain of string literals, in source
\* order; <<>> when the value is no such chain
RECURSIVE ChainLiterals(_)
ChainLiterals(v) ==
    IF v.kind = "Constant" THEN (IF v.is_str THEN <<v.sval>> ELSE <<>>)
    ELSE IF /\ v.kind = "BinOp"
            /\ v.op = "Add"
            /\ IsStrLiteral(v.right)
            /\ ChainLiterals(v.left) # <<>>
    THEN Append(ChainLiterals(v.left), v.right.sval)
    ELSE <<>>

IsLiteralChain(stmt) ==
    /\ stmt.kind = "Assign"
    /\ stmt.targets[1].kind = "Name"
    /\ Len(ChainLiterals(stmt.value)) >= 2

Release(name) ==
    <<"defer", "runtime.", "decref", "(", name, ",", "allocator", ")", ";">>
TempName(t, i) == "_temp_" \o t \o "_" \o ToString(i)
FoldName(t, i) == "_concat_" \o t \o "_" \o ToString(i)

\* the lines the claim lists for `t = lits[1] + .. + lits[n]`, n >= 2
ChainShape(t, lits, kw) ==
    LET n == Len(lits)
        temp(i) == <<"const", TempName(t, i), "=", "try", "runtime.",
                     "PyString.create", "(", "allocator", ",",
                     "\"" \o lits[i + 1] \o "\"", ")", ";">>
        fold(i) == <<"const", FoldName(t, i), "=", "try", "runtime.",
                     "PyString.concat", "(", "allocator", ",",
                     IF i = 1 THEN TempName(t, 0) ELSE FoldName(t, i - 1), ",",
                     TempName(t, i), ")", ";">>
        temps == [j \in 1 .. 2 * n |->
                     IF j % 2 = 1 THEN temp((j - 1) \div 2)
                     ELSE Release(TempName(t, (j - 2) \div 2))]
        folds == [j \in 1 .. 2 * n - 3 |->
                     IF j % 2 = 1 THEN fold((j + 1) \div 2)
                     ELSE Release(FoldName(t, j \div 2))]
    IN temps \o folds \o << <<kw, t, "=", FoldName(t, n - 1), ";">>, Release(t) >>

\* the statement whose lines come first in the first emitted body, when it
\* is a first assignment of a literal chain: the first top-level statement
\* or the first statement of its if/while body (no function assigns the
\* name before), or the first statement of the first function
FirstChain(body) ==
    IF body = <<>> THEN None
    ELSE LET s == body[1]
             inner == IF s.kind \in {"If", "While", "FunctionDef"} /\ s.body # <<>>
                      THEN s.body[1] ELSE None
             c == IF s.kind = "Assign" THEN s ELSE inner
         IN IF /\ c # None
               /\ IsLiteralChain(c)
               /\ (s.kind # "FunctionDef" =>
                     c.targets[1].id
                        \notin AssignedNames(SelectSeq(body, IsFunctionDef)))
            THEN c ELSE None

\* the index in the text of the first line of that statement
FirstChainStart(body, text) ==
    LET s == body[1]
        m == CHOOSE i \in DOMAIN text : IsMainLine(text[i])
        f == CHOOSE i \in DOMAIN text :
                 IsFnLine(text[i]) /\ \A j \in 1 .. i - 1 : ~IsFnLine(text[j])
        first == IF IsGpaLine(text[m + 1]) THEN m + 5 ELSE m + 1
    IN CASE s.kind = "FunctionDef" -> f + 1
         [] s.kind = "Assign" -> first
         [] OTHER -> first + 1

\* C11: a first assignment of a name t to a left-leaning Add chain of n >= 2
\* string literals is emitted as n `_temp_t_i` bindings each followed by its
\* scoped release, n-1 `_concat_t_i` folds of which all but the last are
\* followed by a scoped release, the binding of t to the last fold, and one
\* scoped release on t, in this order and at one indentation.
C11_LiteralChainShape ==
    (pc = "returned" /\ FirstChain(program) # None) =>
        LET c == FirstChain(program)
            t == c.targets[1].id
            lits == ChainLiterals(c.value)
            from == FirstChainStart(program, ret)
            to == from + 4 * Len(lits) - 2
        IN /\ to <= Len(ret)
           /\ ret[to - 1].code[1] \in {"var", "const"}
           /\ [i \in 1 .. to - from + 1 |-> ret[from + i - 1].code]
                 = ChainShape(t, lits, ret[to - 1].code[1])
           /\ \A i \in from .. to : ret[i].pad = ret[from].pad

\* the three-literal chain was emitted in main: three temps, two folds
C11_Witness ==
    /\ pc = "returned"
    /\ program # <<>>
    /\ program[1] = AssignTo("x", Lit3)
    /\ \E i \in DOMAIN ret : ret[i].code = Release("_concat_x_1")
    /\ \E i \in DOMAIN ret :
          Len(ret[i].code) = 5 /\ ret[i].code[4] = "_concat_x_2"

\* the statement is an assignment to a name that visit_Assign takes down the
\* primitive path on emitter g, and its value is not fallible
OnPrimitivePath(g, stmt) ==
    /\ stmt.kind = "Assign"
    /\ stmt.targets[1].kind = "Name"
    /\ LET v == visit_expr(g, stmt.value)
       IN /\ v.raised = ""
          /\ ~v.needs_try
          /\ ~(/\ stmt.value.kind = "BinOp"
               /\ stmt.value.op = "Add"
               /\ g.needs_runtime)

\* the line the claim gives for it
PrimitiveLine(g, stmt) ==
    LET t == stmt.targets[1].id
        code == visit_expr(g, stmt.value).code
    IN IF t \in g.declared_vars THEN <<t, "=">> \o code \o <<";">>
       ELSE IF t \in g.reassigned_vars
       THEN <<"var", t, ":", "i64", "=">> \o code \o <<";">>
       ELSE <<"const", t, "=">> \o code \o <<";">>

\* C12: on the primitive path with a non-fallible value, the step that
\* emits a top-level assignment, or a function whose first statement is the
\* assignment, adds the line `var t: i64 = code;` for the first assignment
\* of a name in reassigned_vars, `const t = code;` for the first assignment
\* of any other name, and `t = code;` for a name already declared.
C12_PrimitiveAssignLine ==
    [][ /\ (pc = "top_level" /\ top_level # <<>>
             /\ OnPrimitivePath(Self, Head(top_level))) =>
            /\ output' = Append(output, Line(IndentWidth * indent_level,
                                             PrimitiveLine(Self, Head(top_level))))
            /\ declared_vars' = declared_vars \cup {Head(top_level).targets[1].id}
        /\ (pc = "functions" /\ functions # <<>>
             /\ Head(functions).body # <<>>
             /\ OnPrimitivePath(Self, Head(functions).body[1])) =>
            /\ Len(output') >= Len(output) + 2
            /\ output'[Len(output) + 2]
                  = Line(IndentWidth * (indent_level + 1),
                         PrimitiveLine(Self, Head(functions).body[1])) ]_vars

\* x assigned twice at top level: the typed `var` line, then the re-store
C12_Witness ==
    /\ pc = "returned"
    /\ \E i, j \in DOMAIN ret :
          /\ i < j
          /\ ret[i].code = <<"var", "x", ":", "i64", "=", "1", ";">>
          /\ ret[j].code = <<"x", "=", "1", ";">>

----------------------------------------------------------------------------
(* Claims about the indentation *)

\* the invocation in progress began at level zero, as every invocation on
\* a newly constructed emitter does (the first line is emitted at the level
\* generate was entered with)
OnFreshEmitter ==
    /\ pc # "idle"
    /\ IF output = <<>> THEN indent_level = 0 ELSE output[1].pad = 0

\* lines i .. Len(text) read at block depth `level`: a line ending in `{`
\* opens a block, a line starting with `}` closes one.  The depth after the
\* last line when every line is padded by IndentWidth per depth, else -1.
RECURSIVE Levels(_, _, _)
Levels(text, i, level) ==
    IF i > Len(text) THEN level
    ELSE LET l == text[i]
             closes == l.code # <<>> /\ l.code[1] = "}"
             opens == l.code # <<>> /\ l.code[Len(l.code)] = "{"
             at == IF closes THEN level - 1 ELSE level
         IN IF at < 0 \/ l.pad # IndentWidth * at THEN -1
            ELSE Levels(text, i + 1, IF opens THEN at + 1 ELSE at)

\* C13: during an invocation of generate on a fresh emitter indent_level is
\* never negative, every emitted line is padded by four spaces per level of
\* the blocks open at it, indent_level is the number of blocks opened and
\* not yet closed, and it is zero when generate returns.
C13_Indentation ==
    OnFreshEmitter =>
        /\ indent_level >= 0
        /\ Levels(output, 1, 0) = indent_level
        /\ pc \in {"return", "returned"} => indent_level = 0
        /\ pc = "returned" => Levels(ret, 1, 0) = 0

\* a returned text with an else block inside main and a line two levels deep
C13_Witness ==
    /\ OnFreshEmitter
    /\ pc = "returned"
    /\ indent_level = 0
    /\ \E i \in DOMAIN ret :
          ret[i].code = <<"}", "else", "{">> /\ ret[i].pad = IndentWidth
    /\ \E i \in DOMAIN ret : ret[i].pad = 2 * IndentWidth

----------------------------------------------------------------------------
(* Claims about the names the text binds and uses *)

IsConstLine(l) == Len(l.code) >= 3 /\ l.code[1] = "const" /\ l.code[3] = "="

\* C14: in the text returned for an accepted program no block binds a name
\* by `const` more than once, also when one target is assigned by the object
\* path twice in that block.
C14_FreshBindings ==
    (pc = "returned" /\ OnFreshEmitter /\ Accepted(program)) =>
        \A i, j \in DOMAIN ret :
            (/\ i < j
             /\ IsConstLine(ret[i])
             /\ IsConstLine(ret[j])
             /\ Opener(ret, i) = Opener(ret, j)) => ret[i].code[2] # ret[j].code[2]

\* line j of the text lies in the block opened by line o, or in a block
\* nested in it
RECURSIVE InScope(_, _, _)
InScope(text, o, j) ==
    LET up == Opener(text, j)
    IN up = o \/ (up # 0 /\ InScope(text, o, up))

\* C15: in the text returned for an accepted program every keyword-less
\* re-store `t = ...;` follows a `var`/`const` declaration of t made in its
\* own block or in a block enclosing it, also when t is assigned in two
\* functions, in a function and at top level, or in both branches of an if.
C15_RestoreInScope ==
    (pc = "returned" /\ OnFreshEmitter /\ Accepted(program)) =>
        \A t \in AssignedNames(program) :
            \A j \in DOMAIN ret :
                IsRestoreOf(ret[j], t) =>
                    \E i \in 1 .. j - 1 :
                        /\ IsDeclOf(ret[i], t)
                        /\ InScope(ret, Opener(ret, i), j)

AllocatorDef == <<"const", "allocator", "=", "gpa.allocator()", ";">>
Mentions(l, token) == \E k \in DOMAIN l.code : l.code[k] = token

\* C16: in the text returned for an accepted program `runtime.` appears
\* only when the runtime import line is in the text, and `allocator` is used
\* only inside the main entry, after its `const allocator` line.
C16_ReferencesBacked ==
    (pc = "returned" /\ OnFreshEmitter /\ Accepted(program)) =>
        /\ (\E j \in DOMAIN ret : Mentions(ret[j], "runtime."))
              => \E i \in DOMAIN ret : ret[i].code = RuntimeImport
        /\ \A j \in DOMAIN ret :
              (Mentions(ret[j], "allocator") /\ ret[j].code # AllocatorDef) =>
                  \E m, d \in 1 .. j - 1 :
                      /\ m < d
                      /\ IsMainLine(ret[m])
                      /\ ret[d].code = AllocatorDef
                      /\ InScope(ret, m, j)

====
